---- MODULE Spec2Model ----
(***************************************************************************)
(* Model of remote-archive-decompression-server (src/archiver.go): the     *)
(* archiver package (ArchiverExtractor and its three entry filters) and    *)
(* the HTTP server (List, Get, Down, path resolution, pagination and the   *)
(* Range-aware streaming of one extracted file).                           *)
(*                                                                         *)
(* A Go string is a sequence of one-character strings; a []byte is a       *)
(* sequence of numbers.  Every request is independent (the server keeps no *)
(* state between requests), so a behaviour is one pending call followed by *)
(* the step that serves it.                                                *)
(***************************************************************************)
EXTENDS Integers, Sequences, FiniteSets, TLC

VARIABLES pc, call, archive, result, trace

vars == <<pc, call, archive, result, trace>>

(***************************************************************************)
(* Bounds of the model.                                                    *)
(***************************************************************************)
MaxPathLen == 4
MaxEntries == 3
MaxItems == 3
MaxSize == 3
MaxSpecLen == 3
IntBits == 5

(***************************************************************************)
(* package strings                                                         *)
(***************************************************************************)
HasPrefix(s, p) ==
    /\ Len(p) <= Len(s)
    /\ SubSeq(s, 1, Len(p)) = p

HasSuffix(s, p) ==
    /\ Len(p) <= Len(s)
    /\ SubSeq(s, Len(s) - Len(p) + 1, Len(s)) = p

Contains(s, p) ==
    \E i \in 1..(Len(s) - Len(p) + 1) : SubSeq(s, i, i + Len(p) - 1) = p

TrimPrefix(s, p) ==
    IF HasPrefix(s, p) THEN SubSeq(s, Len(p) + 1, Len(s)) ELSE s

TrimSuffix(s, p) ==
    IF HasSuffix(s, p) THEN SubSeq(s, 1, Len(s) - Len(p)) ELSE s

\* strings.Count(s, "/") for a one-character separator
Count(s, c) == Cardinality({i \in 1..Len(s) : s[i] = c})

\* strings.ReplaceAll(s, old, new) for one-character old and new
ReplaceAll(s, old, new) ==
    [i \in 1..Len(s) |-> IF s[i] = old THEN new ELSE s[i]]

(***************************************************************************)
(* package path (Go standard library): Clean, Join, Dir                    *)
(***************************************************************************)
\* lazybuf: out.w--, then back up to the previous "/" but not past dotdot
RECURSIVE Backtrack(_, _, _)
Backtrack(out, w, dotdot) ==
    IF w > dotdot /\ out[w + 1] # "/"
    THEN Backtrack(out, w - 1, dotdot)
    ELSE SubSeq(out, 1, w)

\* index of the first "/" at or after r, or Len(path) + 1
RECURSIVE SegEnd(_, _)
SegEnd(path, r) ==
    IF r > Len(path) \/ path[r] = "/" THEN r ELSE SegEnd(path, r + 1)

\* the loop of path.Clean; r is the 1-based read index, out the bytes written
RECURSIVE CleanLoop(_, _, _, _, _)
CleanLoop(path, rooted, r, out, dotdot) ==
    IF r > Len(path) THEN out
    ELSE IF path[r] = "/" THEN
        CleanLoop(path, rooted, r + 1, out, dotdot)
    ELSE IF path[r] = "." /\ (r = Len(path) \/ path[r + 1] = "/") THEN
        CleanLoop(path, rooted, r + 1, out, dotdot)
    ELSE IF /\ path[r] = "."
            /\ path[r + 1] = "."
            /\ (r + 1 = Len(path) \/ path[r + 2] = "/") THEN
        IF Len(out) > dotdot THEN
            CleanLoop(path, rooted, r + 2, Backtrack(out, Len(out) - 1, dotdot), dotdot)
        ELSE IF ~rooted THEN
            CleanLoop(path, rooted, r + 2,
                      (IF Len(out) > 0 THEN Append(out, "/") ELSE out) \o <<".", ".">>,
                      IF Len(out) > 0 THEN Len(out) + 3 ELSE 2)
        ELSE
            CleanLoop(path, rooted, r + 2, out, dotdot)
    ELSE
        CleanLoop(path, rooted, SegEnd(path, r),
                  (IF (rooted /\ Len(out) # 1) \/ (~rooted /\ Len(out) # 0)
                   THEN Append(out, "/") ELSE out)
                      \o SubSeq(path, r, SegEnd(path, r) - 1),
                  dotdot)

\* the end of path.Clean: an empty result is "."
CleanOut(out) == IF out = <<>> THEN <<".">> ELSE out

Clean(path) ==
    IF path = <<>> THEN <<".">>
    ELSE CleanOut(CleanLoop(path, path[1] = "/",
                            IF path[1] = "/" THEN 2 ELSE 1,
                            IF path[1] = "/" THEN <<"/">> ELSE <<>>,
                            IF path[1] = "/" THEN 1 ELSE 0))

\* path.Join: the non-empty elements joined by "/", then cleaned
RECURSIVE JoinElems(_)
JoinElems(elems) ==
    IF elems = <<>> THEN <<>>
    ELSE LET rest == JoinElems(Tail(elems)) IN
         IF Head(elems) = <<>> THEN rest
         ELSE IF rest = <<>> THEN Head(elems)
         ELSE Head(elems) \o <<"/">> \o rest

CleanJoined(j) == IF j = <<>> THEN <<>> ELSE Clean(j)

Join(elems) == CleanJoined(JoinElems(elems))

\* index of the last "/" of s, 0 when there is none
LastSlash(s) ==
    LET is == {i \in 1..Len(s) : s[i] = "/"} IN
    IF is = {} THEN 0 ELSE CHOOSE i \in is : \A j \in is : j <= i

\* path.Dir: everything up to the last slash, cleaned
Dir(s) == Clean(SubSeq(s, 1, LastSlash(s)))

(***************************************************************************)
(* Path resolution (server)                                                *)
(***************************************************************************)
ErrRelativePath == "access using relative path is not allowed"
ErrNotSupport == "not support"

\* the second half of FixAndCleanPath, p being the path with "/" for "\"
EnsureRootAndClean(p) ==
    Clean(IF ~HasPrefix(p, <<"/">>) THEN <<"/">> \o p ELSE p)

FixAndCleanPath(path) == EnsureRootAndClean(ReplaceAll(path, "\\", "/"))

\* variant of JoinBasePath that lets a trailing "/.." through
JoinBasePathNoSuffixCheck(basePath, reqPath) ==
    IF \/ reqPath = <<".", ".">>
       \/ HasPrefix(reqPath, <<".", ".", "/">>)
       \/ Contains(reqPath, <<"/", ".", ".", "/">>)
    THEN [path |-> <<>>, err |-> ErrRelativePath]
    ELSE [path |-> Join(<<FixAndCleanPath(basePath), FixAndCleanPath(reqPath)>>),
          err |-> ""]

JoinBasePath(basePath, reqPath) ==
    IF \/ reqPath = <<".", ".">>
       \/ HasSuffix(reqPath, <<"/", ".", ".">>)
       \/ HasPrefix(reqPath, <<".", ".", "/">>)
       \/ Contains(reqPath, <<"/", ".", ".", "/">>)
    THEN [path |-> <<>>, err |-> ErrRelativePath]
    ELSE [path |-> Join(<<FixAndCleanPath(basePath), FixAndCleanPath(reqPath)>>),
          err |-> ""]

\* handerReqPath after its call of JoinBasePath: reqPath is what that call
\* returned, or the join of the raw path when the raw path is not "/"
TrailingSlash(reqPath, isDir) ==
    IF isDir /\ reqPath # <<"/">> THEN reqPath \o <<"/">> ELSE reqPath

AfterJoinBasePath(path, isDir, j) ==
    IF j.err # "" THEN [path |-> <<>>, err |-> j.err]
    ELSE [path |-> TrailingSlash(IF path # <<"/">>
                                 THEN Join(<<path \o <<"/">>>>)
                                 ELSE j.path,
                                 isDir),
          err |-> ""]

handerReqPath(path, isDir) ==
    AfterJoinBasePath(path, isDir, JoinBasePath(<<>>, path))

(***************************************************************************)
(* package archiver: ArchiverExtractor and its filters                     *)
(*                                                                         *)
(* An archive entry is [name, isDir, size]: name is NameInArchive (forward *)
(* slashes, no leading slash), size the decompressed size.  A FileHandler  *)
(* closure is the record of what it captured; HandleFile applies it to one *)
(* entry and yields whether the entry is appended to *files and the error  *)
(* the closure returns.                                                    *)
(***************************************************************************)
SkipDir == "SkipDir"

NoFilter ==
    [kind |-> "NoFilter", arg |-> <<>>]

DirFilter(dir) ==
    [kind |-> "DirFilter", arg |-> dir]

FileFilter(filePath) ==
    [kind |-> "FileFilter", arg |-> filePath]

NoFilterHandle(f) ==
    [keep |-> TRUE, ret |-> ""]

\* the test DirFilter makes on fileDir, the name with the dir prefix trimmed
\* variant of DirFilterKeep that keeps directories at any depth
DirFilterKeepAnyDepth(fileDir) ==
    \/ (Count(fileDir, "/") = 0 /\ Len(fileDir) > 0)
    \/ (Count(fileDir, "/") >= 1 /\ HasSuffix(fileDir, <<"/">>))

DirFilterKeep(fileDir) ==
    \/ (Count(fileDir, "/") = 0 /\ Len(fileDir) > 0)
    \/ (Count(fileDir, "/") = 1 /\ HasSuffix(fileDir, <<"/">>))

DirFilterHandle(dir, f) ==
    [keep |-> DirFilterKeep(TrimPrefix(<<"/">> \o f.name, dir)), ret |-> ""]

\* FileFilter's fileDir: path.Dir of the name, "" for "."
FileDirOf(d) == IF d = <<".">> THEN <<>> ELSE d

\* variant of FileFilterHandle that keeps every file of the matching directory
FileFilterHandleWholeDir(filePath, f) ==
    IF f.isDir THEN [keep |-> FALSE, ret |-> ""]
    ELSE IF ~HasPrefix(filePath, <<"/">> \o FileDirOf(Dir(f.name)))
    THEN [keep |-> FALSE, ret |-> SkipDir]
    ELSE [keep |-> TRUE, ret |-> ""]

FileFilterHandle(filePath, f) ==
    IF f.isDir THEN [keep |-> FALSE, ret |-> ""]
    ELSE IF ~HasPrefix(filePath, <<"/">> \o FileDirOf(Dir(f.name)))
    THEN [keep |-> FALSE, ret |-> SkipDir]
    ELSE [keep |-> filePath = <<"/">> \o f.name, ret |-> ""]

HandleFile(ff, f) ==
    CASE ff.kind = "NoFilter" -> NoFilterHandle(f)
      [] ff.kind = "DirFilter" -> DirFilterHandle(ff.arg, f)
      [] ff.kind = "FileFilter" -> FileFilterHandle(ff.arg, f)

(***************************************************************************)
(* archiver.Extractor.Extract of github.com/mholt/archiver/v4, as the      *)
(* repository calls it: walk the entries in archive order, pass each entry *)
(* that pathsInArchive includes and no skipped directory covers to the     *)
(* handler, and on fs.SkipDir skip the rest of the entry's directory.      *)
(* A path list is [isNil, list]: a nil list includes every entry.          *)
(***************************************************************************)
NilPaths == [isNil |-> TRUE, list |-> <<>>]

PathList(l) == [isNil |-> FALSE, list |-> l]

fileIsIncluded(filenameList, filename) ==
    \/ filenameList.isNil
    \/ \E i \in 1..Len(filenameList.list) :
          \/ filename = filenameList.list[i]
          \/ HasPrefix(filename, TrimSuffix(filenameList.list[i], <<"/">>) \o <<"/">>)

\* skipList.add: keep the broadest directories only
SkipListAdd(s, dir) ==
    IF \E i \in 1..Len(s) : TrimSuffix(s[i], <<"/">>) = TrimSuffix(dir, <<"/">>)
    THEN s
    ELSE IF \E i \in 1..Len(s) :
               HasPrefix(TrimSuffix(dir, <<"/">>), TrimSuffix(s[i], <<"/">>) \o <<"/">>)
    THEN SelectSeq(s, LAMBDA e :
               ~HasPrefix(TrimSuffix(e, <<"/">>), TrimSuffix(dir, <<"/">>) \o <<"/">>))
    ELSE Append(SelectSeq(s, LAMBDA e :
               ~HasPrefix(TrimSuffix(e, <<"/">>), TrimSuffix(dir, <<"/">>) \o <<"/">>)),
                dir)

\* the walk's state after the handler returned h for entry f
AfterHandle(st, f, h) ==
    [files |-> IF h.keep THEN Append(st.files, f) ELSE st.files,
     skipDirs |-> IF h.ret = SkipDir
                  THEN SkipListAdd(st.skipDirs,
                                   IF f.isDir THEN f.name ELSE Dir(f.name) \o <<"/">>)
                  ELSE st.skipDirs,
     handled |-> Append(st.handled, f.name)]

RECURSIVE ExtractLoop(_, _, _, _, _)
ExtractLoop(entries, i, pathsInArchive, ff, st) ==
    IF i > Len(entries) THEN st
    ELSE IF ~fileIsIncluded(pathsInArchive, entries[i].name) THEN
        ExtractLoop(entries, i + 1, pathsInArchive, ff, st)
    ELSE IF fileIsIncluded(PathList(st.skipDirs), entries[i].name) THEN
        ExtractLoop(entries, i + 1, pathsInArchive, ff, st)
    ELSE
        ExtractLoop(entries, i + 1, pathsInArchive, ff,
                    AfterHandle(st, entries[i], HandleFile(ff, entries[i])))

ExtractDone(st) ==
    [files |-> st.files, handled |-> st.handled, read |-> TRUE, err |-> ""]

\* readOk: whether the remote archive could be read (its index parsed)
Extract(sourceArchive, readOk, pathsInArchive, ff) ==
    IF ~readOk
    THEN [files |-> <<>>, handled |-> <<>>, read |-> FALSE, err |-> "read archive"]
    ELSE ExtractDone(ExtractLoop(sourceArchive, 1, pathsInArchive, ff,
                         [files |-> <<>>, skipDirs |-> <<>>, handled |-> <<>>]))

\* ae.pathsInArchive is never assigned: it stays nil.  ae.fileHandlerFunc is
\* nil as well (the server never calls SetFileHandlerFunc).
ExtractDirs(sourceArchive, readOk, dir) ==
    Extract(sourceArchive, readOk, NilPaths, DirFilter(dir))

CascadeExtractDirs(sourceArchive, readOk, dir) ==
    Extract(sourceArchive, readOk,
            IF dir # <<"/">> THEN PathList(<<TrimPrefix(dir, <<"/">>)>>) ELSE NilPaths,
            NoFilter)

\* the end of ExtractFile: the first file kept, or "file not found"
FirstFile(x) ==
    IF Len(x.files) = 0
    THEN [files |-> <<>>, handled |-> x.handled, read |-> x.read,
          err |-> "file not found"]
    ELSE [files |-> <<x.files[1]>>, handled |-> x.handled, read |-> x.read,
          err |-> x.err]

ExtractFile(sourceArchive, readOk, filePath) ==
    FirstFile(Extract(sourceArchive, readOk, NilPaths, FileFilter(filePath)))

(***************************************************************************)
(* Pagination (server).  Go's int is a fixed-width two's complement        *)
(* integer; the model keeps the wrap-around at IntBits bits.               *)
(***************************************************************************)
RECURSIVE Pow2(_)
Pow2(n) == IF n = 0 THEN 1 ELSE 2 * Pow2(n - 1)

MaxInt == Pow2(IntBits - 1) - 1
MinInt == 0 - Pow2(IntBits - 1)

\* the value an int holds after an arithmetic result x
WrapInt(x) == ((x - MinInt) % Pow2(IntBits)) + MinInt

DefaultPageSize == 10

\* [panic, total, items]: objs[start:end] panics unless 0 <= start <= end <= cap
pagination(objs, page, perPage) ==
    LET pageIndex == IF page <= 0 THEN 1 ELSE page
        pageSize == IF perPage <= 0 THEN DefaultPageSize ELSE perPage
        total == Len(objs)
        start == WrapInt(WrapInt(pageIndex - 1) * pageSize)
        end0 == WrapInt(start + pageSize)
        end == IF end0 > total THEN total ELSE end0
    IN  IF start > total THEN [panic |-> FALSE, total |-> total, items |-> <<>>]
        ELSE IF start < 0 \/ end < start \/ end > total
             THEN [panic |-> TRUE, total |-> total, items |-> <<>>]
        ELSE [panic |-> FALSE, total |-> total, items |-> SubSeq(objs, start + 1, end)]

(***************************************************************************)
(* Range header parsing (server)                                           *)
(***************************************************************************)
ErrInvalidRange == "Invalid Range Header"
StatusRequestedRangeNotSatisfiable == 416
StatusPartialContent == 206

Digits == <<"0", "1", "2", "3", "4", "5", "6", "7", "8", "9">>

IsDigit(c) == \E i \in 1..10 : Digits[i] = c

DigitVal(c) == (CHOOSE i \in 1..10 : Digits[i] = c) - 1

IsSpace(c) == c \in {" ", "\t"}

RECURSIVE SkipSpace(_)
SkipSpace(s) == IF s # <<>> /\ IsSpace(Head(s)) THEN SkipSpace(Tail(s)) ELSE s

RECURSIVE TrimRightSpace(_)
TrimRightSpace(s) ==
    IF s # <<>> /\ IsSpace(s[Len(s)]) THEN TrimRightSpace(SubSeq(s, 1, Len(s) - 1)) ELSE s

TrimSpace(s) == TrimRightSpace(SkipSpace(s))

RECURSIVE DecimalValue(_, _)
DecimalValue(s, acc) ==
    IF s = <<>> THEN acc ELSE DecimalValue(Tail(s), 10 * acc + DigitVal(Head(s)))

\* strconv.ParseInt(t, 10, 64) with the error dropped: a string that is no
\* decimal number yields 0
ParseDigits(body) ==
    IF body = <<>> \/ \E i \in 1..Len(body) : ~IsDigit(body[i]) THEN 0
    ELSE DecimalValue(body, 0)

ParseInt(t) ==
    IF t # <<>> /\ Head(t) = "-" THEN 0 - ParseDigits(Tail(t))
    ELSE IF t # <<>> /\ Head(t) = "+" THEN ParseDigits(Tail(t))
    ELSE ParseDigits(t)

toInt64(s) == ParseInt(TrimSpace(s))

\* index of the first sep in s, 0 when there is none
RECURSIVE IndexFrom(_, _, _)
IndexFrom(s, sep, i) ==
    IF i > Len(s) THEN 0
    ELSE IF s[i] = sep THEN i
    ELSE IndexFrom(s, sep, i + 1)

\* strings.Split(s, sep) for a one-character separator
RECURSIVE SplitAt(_, _, _)
SplitAt(s, sep, i) ==
    IF i = 0 THEN <<s>>
    ELSE <<SubSeq(s, 1, i - 1)>>
         \o SplitAt(SubSeq(s, i + 1, Len(s)), sep,
                    IndexFrom(SubSeq(s, i + 1, Len(s)), sep, 1))

Split(s, sep) == SplitAt(s, sep, IndexFrom(s, sep, 1))

\* the regexp ^\s*bytes\s*=\s*(.*)$ : [ok, rest], rest being the submatch
AfterEquals(h) ==
    IF HasPrefix(h, <<"=">>)
    THEN [ok |-> TRUE, rest |-> SkipSpace(Tail(h))]
    ELSE [ok |-> FALSE, rest |-> <<>>]

AfterBytes(h) ==
    IF HasPrefix(h, <<"b", "y", "t", "e", "s">>)
    THEN AfterEquals(SkipSpace(SubSeq(h, 6, Len(h))))
    ELSE [ok |-> FALSE, rest |-> <<>>]

RangePattern(header) == AfterBytes(SkipSpace(header))

\* the start and end one range spec denotes, before they are validated
rangeBounds(rangeParts, totalLength) ==
    IF rangeParts[1] = <<>>
    THEN [Start |-> totalLength - 1 - toInt64(rangeParts[2]), End |-> totalLength - 1]
    ELSE IF rangeParts[2] = <<>>
    THEN [Start |-> toInt64(rangeParts[1]), End |-> totalLength - 1]
    ELSE [Start |-> toInt64(rangeParts[1]), End |-> toInt64(rangeParts[2])]

\* the check of one range: [err, Start, End]
CheckRange(b, totalLength) ==
    IF b.Start > b.End \/ b.Start >= totalLength \/ b.End >= totalLength
    THEN [err |-> ErrInvalidRange, Start |-> 0, End |-> 0]
    ELSE [err |-> "", Start |-> b.Start, End |-> b.End]

CheckParts(rangeParts, totalLength) ==
    IF Len(rangeParts) # 2 THEN [err |-> ErrInvalidRange, Start |-> 0, End |-> 0]
    ELSE CheckRange(rangeBounds(rangeParts, totalLength), totalLength)

\* one iteration of the loop over rangeSpecs
parseRangeSpec(rangeSpec, totalLength) ==
    CheckParts(Split(rangeSpec, "-"), totalLength)

\* ranges = append(ranges, r), unless r or a later spec is in error
AppendRange(r, rest) ==
    IF r.err # "" THEN [err |-> r.err, ranges |-> <<>>]
    ELSE IF rest.err # "" THEN rest
    ELSE [err |-> "", ranges |-> <<[Start |-> r.Start, End |-> r.End]>> \o rest.ranges]

RECURSIVE parseRangeSpecs(_, _)
parseRangeSpecs(rangeSpecs, totalLength) ==
    IF rangeSpecs = <<>> THEN [err |-> "", ranges |-> <<>>]
    ELSE AppendRange(parseRangeSpec(Head(rangeSpecs), totalLength),
                     parseRangeSpecs(Tail(rangeSpecs), totalLength))

AfterPattern(match, totalLength) ==
    IF ~match.ok THEN [err |-> ErrInvalidRange, ranges |-> <<>>]
    ELSE parseRangeSpecs(Split(match.rest, ","), totalLength)

parseRangeHeader(header, totalLength) ==
    AfterPattern(RangePattern(header), totalLength)

(***************************************************************************)
(* The decompressing stream of one entry and MyReadAtReader                *)
(*                                                                         *)
(* The content of a file of size n is the bytes 1..n, so that every byte   *)
(* differs from the zero a fresh buffer holds.  A stream is [data, pos]:   *)
(* pos bytes have been consumed.                                           *)
(***************************************************************************)
FileData(f) == [i \in 1..f.size |-> i]

Zeros(n) == [i \in 1..n |-> 0]

Min(a, b) == IF a <= b THEN a ELSE b

\* io.Reader.Read(p) with len(p) = want: every outcome the contract allows.
\* A read of an empty buffer returns 0, nil; at the end of the stream a read
\* returns 0, EOF; otherwise it returns 1..want bytes, and the read that
\* delivers the last byte may report EOF with it.
ReadN(stream, n, err) ==
    [n |-> n, err |-> err,
     bytes |-> SubSeq(stream.data, stream.pos + 1, stream.pos + n),
     stream |-> [stream EXCEPT !.pos = stream.pos + n]]

ReadOutcomes(stream, want) ==
    IF want = 0 THEN {ReadN(stream, 0, "")}
    ELSE IF Len(stream.data) = stream.pos THEN {ReadN(stream, 0, "EOF")}
    ELSE {ReadN(stream, n, "") : n \in 1..Min(want, Len(stream.data) - stream.pos)}
         \cup {ReadN(stream, n, "EOF") :
                  n \in {k \in 1..want : k = Len(stream.data) - stream.pos}}

\* MyReadAtReader.ReadAt(p, off) with len(p) = plen: the set of outcomes
\* [err, buf, stream, discarded].  The named results n, err are shadowed by
\* the if statement's own n, err, so the success path returns 0, nil.
ReadAt(stream, size, plen, off) ==
    IF off < 0 \/ off >= size
    THEN {[err |-> "EOF", buf |-> Zeros(plen), stream |-> stream, discarded |-> 0]}
    ELSE UNION {
           IF d.err # ""
           THEN {[err |-> d.err, buf |-> Zeros(plen), stream |-> d.stream,
                  discarded |-> d.n]}
           ELSE {[err |-> r.err,
                  buf |-> r.bytes \o Zeros(plen - r.n),
                  stream |-> r.stream,
                  discarded |-> d.n] : r \in ReadOutcomes(d.stream, plen)}
           : d \in ReadOutcomes(stream, off)}

(***************************************************************************)
(* Responses (server).  ErrorStrResp and SuccessResp write a JSON envelope *)
(* with HTTP status 200; SuccessStreamResp writes the file's bytes.        *)
(***************************************************************************)
NoRange == [Start |-> 0, End |-> 0, total |-> 0]

ErrorStrResp(msg, code) ==
    [kind |-> "envelope", status |-> 200, code |-> code, msg |-> msg,
     data |-> <<>>, total |-> 0,
     contentLength |-> 0, contentRange |-> NoRange, body |-> <<>>]

SuccessResp(data, total) ==
    [kind |-> "envelope", status |-> 200, code |-> 200, msg |-> "success",
     data |-> data, total |-> total,
     contentLength |-> 0, contentRange |-> NoRange, body |-> <<>>]

StreamResp(status, contentLength, contentRange, body) ==
    [kind |-> "stream", status |-> status, code |-> 0, msg |-> "",
     data |-> <<>>, total |-> 0,
     contentLength |-> contentLength, contentRange |-> contentRange, body |-> body]

\* a panic in a handler: gin's Recovery middleware answers 500 with no body
PanicResp ==
    [kind |-> "panic", status |-> 500, code |-> 0, msg |-> "",
     data |-> <<>>, total |-> 0,
     contentLength |-> 0, contentRange |-> NoRange, body |-> <<>>]

\* what a call did besides answering: the resolved path, whether the remote
\* archive was opened (getArchive called), whether its index could be read,
\* the entries handed to the filter,
\* whether the entry's stream was opened, the bytes the discard read took
\* from it and the bytes consumed of it in all
NoTrace ==
    [reqPath |-> <<>>, opened |-> FALSE, read |-> FALSE, handled |-> <<>>,
     fileOpened |-> FALSE, discarded |-> 0, consumed |-> 0]

\* c.Status(200); io.Copy(c.Writer, frc): the whole file
FullBody(f) ==
    [resp |-> StreamResp(200, f.size, NoRange, FileData(f)),
     discarded |-> 0, consumed |-> f.size]

\* the answer to one range once ReadAt returned o
RangeBody(f, start, end, o) ==
    IF o.err # ""
    THEN [resp |-> ErrorStrResp(o.err, 500),
          discarded |-> o.discarded, consumed |-> o.stream.pos]
    ELSE [resp |-> StreamResp(StatusPartialContent, end - start + 1,
                              [Start |-> start, End |-> end, total |-> f.size], o.buf),
          discarded |-> o.discarded, consumed |-> o.stream.pos]

\* SuccessStreamResp once the Range header is parsed into p
\* variant of AfterParse that serves the first range of a list as a 206 part
AfterParseFirstRange(f, p) ==
    IF p.err # ""
    THEN {[resp |-> ErrorStrResp(p.err, StatusRequestedRangeNotSatisfiable),
           discarded |-> 0, consumed |-> 0]}
    ELSE IF Len(p.ranges) >= 1
    THEN {RangeBody(f, p.ranges[1].Start, p.ranges[1].End, o) :
             o \in ReadAt([data |-> FileData(f), pos |-> 0], f.size,
                          p.ranges[1].End - p.ranges[1].Start + 1, p.ranges[1].Start)}
    ELSE {FullBody(f)}

AfterParse(f, p) ==
    IF p.err # ""
    THEN {[resp |-> ErrorStrResp(p.err, StatusRequestedRangeNotSatisfiable),
           discarded |-> 0, consumed |-> 0]}
    ELSE IF Len(p.ranges) = 1
    THEN {RangeBody(f, p.ranges[1].Start, p.ranges[1].End, o) :
             o \in ReadAt([data |-> FileData(f), pos |-> 0], f.size,
                          p.ranges[1].End - p.ranges[1].Start + 1, p.ranges[1].Start)}
    ELSE {FullBody(f)}

\* SuccessStreamResp: the set of outcomes [resp, discarded, consumed]
SuccessStreamResp(f, rangeHeader, openOk) ==
    IF ~openOk
    THEN {[resp |-> ErrorStrResp(ErrNotSupport, 500), discarded |-> 0, consumed |-> 0]}
    ELSE IF rangeHeader = <<>> THEN {FullBody(f)}
    ELSE AfterParse(f, parseRangeHeader(rangeHeader, f.size))

(***************************************************************************)
(* The handlers List, Get and Down.  A pending call is                     *)
(* [op, link, path, cascade, page, perPage, range]; link is "" when the    *)
(* request carries none (binding:"required" then fails).  What the remote  *)
(* side does is chosen by the environment: fetchOk (getArchive succeeds),  *)
(* readOk (the archive's index can be read), openOk (the entry opens) and  *)
(* how the entry's stream splits its bytes across reads.                   *)
(***************************************************************************)
ErrBind == "Key: 'link' Error:Field validation for 'link' failed on the 'required' tag"
ErrFetch == "remote fetch failed"

buildObj(f) == [nameInArchive |-> f.name, isDir |-> f.isDir, size |-> f.size]

buildObjs(files) == [i \in 1..Len(files) |-> buildObj(files[i])]

\* the part List, Get and Down share, [err, code, files, trace]: bind, resolve
\* the path, open the archive and extract with dirFunc or ExtractFile
Opened(reqPath) == [NoTrace EXCEPT !.reqPath = reqPath, !.opened = TRUE]

AfterExtract(reqPath, x) ==
    IF x.err # ""
    THEN [err |-> ErrNotSupport, code |-> 500, files |-> <<>>,
          trace |-> [Opened(reqPath) EXCEPT !.handled = x.handled, !.read = x.read]]
    ELSE [err |-> "", code |-> 200, files |-> x.files,
          trace |-> [Opened(reqPath) EXCEPT !.handled = x.handled, !.read = x.read]]

AfterResolve(c, arc, isDir, fetchOk, readOk, rp) ==
    IF rp.err # ""
    THEN [err |-> rp.err, code |-> 500, files |-> <<>>, trace |-> NoTrace]
    ELSE IF ~fetchOk
    THEN [err |-> ErrFetch, code |-> 500, files |-> <<>>, trace |-> Opened(rp.path)]
    ELSE IF ~isDir
    THEN AfterExtract(rp.path, ExtractFile(arc, readOk, rp.path))
    ELSE IF c.cascade
    THEN AfterExtract(rp.path, CascadeExtractDirs(arc, readOk, rp.path))
    ELSE AfterExtract(rp.path, ExtractDirs(arc, readOk, rp.path))

Prepare(c, arc, isDir, fetchOk, readOk) ==
    IF c.link = ""
    THEN [err |-> ErrBind, code |-> 400, files |-> <<>>, trace |-> NoTrace]
    ELSE AfterResolve(c, arc, isDir, fetchOk, readOk, handerReqPath(c.path, isDir))

\* the end of List: paginate and answer
PageResp(pg) ==
    IF pg.panic THEN PanicResp ELSE SuccessResp(pg.items, pg.total)

ListResp(c, p) ==
    IF p.err # "" THEN ErrorStrResp(p.err, p.code)
    ELSE PageResp(pagination(buildObjs(p.files), c.page, c.perPage))

GetResp(p) ==
    IF p.err # "" THEN ErrorStrResp(p.err, p.code)
    ELSE SuccessResp(<<buildObj(p.files[1])>>, 0)

\* the end of Down: the set of [resp, trace]
StreamOutcome(p, openOk, o) ==
    [resp |-> o.resp,
     trace |-> [p.trace EXCEPT !.fileOpened = openOk,
                               !.discarded = o.discarded,
                               !.consumed = o.consumed]]

DownOutcomes(c, p, openOk) ==
    IF p.err # "" THEN {[resp |-> ErrorStrResp(p.err, p.code), trace |-> p.trace]}
    ELSE {StreamOutcome(p, openOk, o) :
             o \in SuccessStreamResp(p.files[1], c.range, openOk)}

Answer(resp, tr) ==
    /\ result' = resp
    /\ trace' = tr
    /\ pc' = "done"
    /\ UNCHANGED <<call, archive>>

ListStep(p) == Answer(ListResp(call, p), p.trace)

List ==
    /\ pc = "pending"
    /\ call.op = "List"
    /\ \E fetchOk \in BOOLEAN, readOk \in BOOLEAN :
          ListStep(Prepare(call, archive, TRUE, fetchOk, readOk))

GetStep(p) == Answer(GetResp(p), p.trace)

Get ==
    /\ pc = "pending"
    /\ call.op = "Get"
    /\ \E fetchOk \in BOOLEAN, readOk \in BOOLEAN :
          GetStep(Prepare(call, archive, FALSE, fetchOk, readOk))

Down ==
    /\ pc = "pending"
    /\ call.op = "Down"
    /\ \E fetchOk \in BOOLEAN, readOk \in BOOLEAN, openOk \in BOOLEAN :
          \E o \in DownOutcomes(call, Prepare(call, archive, FALSE, fetchOk, readOk),
                               openOk) :
             Answer(o.resp, o.trace)

(***************************************************************************)
(* Direct calls of the package's operations and of the server's pure       *)
(* functions.                                                              *)
(***************************************************************************)
CallHanderReqPath ==
    /\ pc = "pending"
    /\ call.op = "handerReqPath"
    /\ Answer(handerReqPath(call.path, call.isDir), trace)

\* the result of an extractor call x
Extracted(x) ==
    Answer([files |-> x.files, err |-> x.err], [trace EXCEPT !.handled = x.handled, !.read = x.read])

CallExtractDirs ==
    /\ pc = "pending"
    /\ call.op = "ExtractDirs"
    /\ \E readOk \in BOOLEAN : Extracted(ExtractDirs(archive, readOk, call.path))

CallCascadeExtractDirs ==
    /\ pc = "pending"
    /\ call.op = "CascadeExtractDirs"
    /\ \E readOk \in BOOLEAN : Extracted(CascadeExtractDirs(archive, readOk, call.path))

CallExtractFile ==
    /\ pc = "pending"
    /\ call.op = "ExtractFile"
    /\ \E readOk \in BOOLEAN : Extracted(ExtractFile(archive, readOk, call.path))

CallPagination ==
    /\ pc = "pending"
    /\ call.op = "pagination"
    /\ Answer(pagination(call.objs, call.page, call.perPage), trace)

(***************************************************************************)
(* The inputs of the specifications.                                       *)
(***************************************************************************)
Strings(chars, maxLen) == UNION {[1..n -> chars] : n \in 0..maxLen}

SeqsUpTo(S, maxLen) == UNION {[1..n -> S] : n \in 0..maxLen}

PathChars == {"a", ".", "/", "\\"}

RawPaths == Strings(PathChars, MaxPathLen)

Links == {"", "http://host/a.zip"}

Dentry(name) == [name |-> name, isDir |-> TRUE, size |-> 0]

Fentry(name, size) == [name |-> name, isDir |-> FALSE, size |-> size]

\* the archive of the specification's examples: a/, a/b, a/c/, a/c/d
ExampleArchive ==
    << Dentry(<<"a", "/">>),
       Fentry(<<"a", "/", "b">>, 2),
       Dentry(<<"a", "/", "c", "/">>),
       Fentry(<<"a", "/", "c", "/", "d">>, 3) >>

\* entries archives are built of: those of the example, a top-level file,
\* a sibling directory whose name extends "a", another top-level directory,
\* and a directory entry named without a trailing slash (as 7z names them)
EntryPool ==
    { Dentry(<<"a", "/">>),
      Fentry(<<"a", "/", "b">>, 2),
      Dentry(<<"a", "/", "c", "/">>),
      Fentry(<<"a", "/", "c", "/", "d">>, 3),
      Fentry(<<"b">>, 1),
      Fentry(<<"a", "b", "/", "b">>, 1),
      Fentry(<<"c", "/", "d">>, 1),
      Dentry(<<"a", "/", "d">>) }

Archives == SeqsUpTo(EntryPool, MaxEntries)

DirPaths ==
    { <<"/">>, <<"/", "a", "/">>, <<"/", "a", "/", "c", "/">>,
      <<"/", "a", "b", "/">>, <<"/", "c", "/">> }

FilePaths ==
    { <<"/", "b">>, <<"/", "a", "/", "b">>, <<"/", "a", "/", "c", "/", "d">>,
      <<"/", "a", "b", "/", "b">>, <<"/", "c", "/", "d">>, <<"/", "a", "/", "d">>,
      <<"/", "a", "/", "c">> }

HandlerCall(op, link, path, cascade, page, perPage, range) ==
    [op |-> op, link |-> link, path |-> path, cascade |-> cascade,
     page |-> page, perPage |-> perPage, range |-> range]

BytesEq == <<"b", "y", "t", "e", "s", "=">>

RangeChars == {"0", "1", "2", "-"}

RangeSpecs == Strings(RangeChars, MaxSpecLen)

PairChars == {"0", "1", "-"}

PairSpecs == Strings(PairChars, MaxSpecLen)

\* Range headers: absent, one or two range specs after "bytes=", and a unit
\* other than bytes
RangeHeaders ==
    {<<>>}
    \cup {BytesEq \o s : s \in RangeSpecs}
    \cup {BytesEq \o s \o <<",">> \o t : s \in PairSpecs, t \in PairSpecs}
    \cup {<<"b", "=">> \o s : s \in Strings(RangeChars, 1)}

(***************************************************************************)
(* Specifications.                                                         *)
(***************************************************************************)
\* requests with every raw path, against the example archive
InitPath ==
    /\ pc = "pending"
    /\ archive = ExampleArchive
    /\ call \in
         {HandlerCall("List", l, p, c, 0, 0, <<>>) :
              l \in Links, p \in RawPaths, c \in BOOLEAN}
         \cup {HandlerCall(op, l, p, FALSE, 0, 0, <<>>) :
              op \in {"Get", "Down"}, l \in Links, p \in RawPaths}
         \cup {[op |-> "handerReqPath", path |-> p, isDir |-> d] :
              p \in RawPaths, d \in BOOLEAN}
    /\ result = <<>>
    /\ trace = NoTrace

NextPath == List \/ Get \/ Down \/ CallHanderReqPath

SpecPath == InitPath /\ [][NextPath]_vars

\* the extractor's operations on every archive of up to MaxEntries entries
InitExtract ==
    /\ pc = "pending"
    /\ archive \in Archives
    /\ call \in
         {[op |-> op, path |-> d] :
              op \in {"ExtractDirs", "CascadeExtractDirs"}, d \in DirPaths}
         \cup {[op |-> "ExtractFile", path |-> f] : f \in FilePaths}
    /\ result = <<>>
    /\ trace = NoTrace

NextExtract == CallExtractDirs \/ CallCascadeExtractDirs \/ CallExtractFile

SpecExtract == InitExtract /\ [][NextExtract]_vars

\* pagination of up to MaxItems items with every pair of ints
InitPage ==
    /\ pc = "pending"
    /\ archive = <<>>
    /\ call \in
         {[op |-> "pagination", objs |-> [i \in 1..n |-> i], page |-> pg, perPage |-> pp] :
              n \in 0..MaxItems, pg \in MinInt..MaxInt, pp \in MinInt..MaxInt}
    /\ result = <<>>
    /\ trace = NoTrace

NextPage == CallPagination

SpecPage == InitPage /\ [][NextPage]_vars

\* downloads of one file of every size up to MaxSize with every Range header
InitRange ==
    /\ pc = "pending"
    /\ \E n \in 0..MaxSize : archive = <<Fentry(<<"f">>, MaxSize - n)>>
    /\ call \in
         {HandlerCall("Down", "http://host/a.zip", <<"/", "f">>, FALSE, 0, 0, h) :
              h \in RangeHeaders}
    /\ result = <<>>
    /\ trace = NoTrace

NextRange == Down

SpecRange == InitRange /\ [][NextRange]_vars

(***************************************************************************)
(* Properties.                                                             *)
(***************************************************************************)
IsHandlerCall == call.op \in {"List", "Get", "Down"}

\* the raw paths the specification says are refused
DeniedRawPath(p) ==
    \/ p = <<".", ".">>
    \/ (Len(p) >= 3 /\ SubSeq(p, 1, 3) = <<".", ".", "/">>)
    \/ (Len(p) >= 3 /\ SubSeq(p, Len(p) - 2, Len(p)) = <<"/", ".", ".">>)
    \/ \E i \in 1..(Len(p) - 3) : SubSeq(p, i, i + 3) = <<"/", ".", ".", "/">>

\* C1: a List, Get or Down request (one that binds, i.e. carries a link) whose
\* raw path is "..", starts with "../", ends with "/.." or contains "/../" is
\* answered with the relative-path-denied error in an envelope of code 500,
\* and the remote archive is never opened, no entry is handed to a filter and
\* no entry stream is opened or read in that request.
C1_RelativePathDenied ==
    (pc = "done" /\ IsHandlerCall /\ call.link # "" /\ DeniedRawPath(call.path))
    => /\ result.kind = "envelope"
       /\ result.code = 500
       /\ result.msg = ErrRelativePath
       /\ result.data = <<>>
       /\ ~trace.opened
       /\ trace.handled = <<>>
       /\ ~trace.fileOpened
       /\ trace.consumed = 0

C1_Witness ==
    /\ pc = "done"
    /\ call.op = "Down"
    /\ call.link # ""
    /\ call.path = <<"a", "/", ".", ".">>
    /\ result.code = 500

\* the segments of a path between its slashes
Segments(p) == Split(p, "/")

GoodSegments(p) ==
    \A i \in 1..Len(Segments(p)) :
        Segments(p)[i] \notin {<<>>, <<".">>, <<".", ".">>}

\* a normalized path: "/" itself, or "/" and good segments, with one trailing
\* slash exactly when a directory is wanted
NormalizedPath(p, isDir) ==
    /\ Len(p) >= 1
    /\ p[1] = "/"
    /\ \A i \in 1..Len(p) : p[i] # "\\"
    /\ \/ p = <<"/">>
       \/ isDir /\ p[Len(p)] = "/" /\ GoodSegments(SubSeq(p, 2, Len(p) - 1))
       \/ ~isDir /\ GoodSegments(SubSeq(p, 2, Len(p)))

\* C2: every raw path handerReqPath accepts resolves to a path that begins
\* with "/", holds no backslash and no ".", ".." or empty segment, and ends
\* with exactly one "/" when a directory is wanted and with none when a file
\* is wanted (the root being just "/").
C2_ResolvedPathNormalized ==
    (pc = "done" /\ call.op = "handerReqPath" /\ result.err = "")
    => NormalizedPath(result.path, call.isDir)

\* the entries of the archive that satisfy Test, in archive order
Entries(Test(_)) == SelectSeq(archive, Test)

\* name is an immediate child of the directory path P
ImmediateChild(P, name) ==
    /\ Len(name) + 1 > Len(P)
    /\ SubSeq(<<"/">> \o name, 1, Len(P)) = P
    /\ \A i \in (Len(P) + 1)..Len(name) : (<<"/">> \o name)[i] # "/"

HoldsFile(F) ==
    \E i \in 1..Len(archive) : ~archive[i].isDir /\ <<"/">> \o archive[i].name = F

HoldsName(F) ==
    \E i \in 1..Len(archive) : <<"/">> \o archive[i].name = F

\* C4: ExtractFile(F) returns an entry named F whenever the archive holds a
\* file entry of that name, whatever the order of the entries (the skip
\* signal never hides it); it fails with "file not found" when no entry is
\* named F; and it never returns an entry of another name.
C4_FileFilterExactMatch ==
    (pc = "done" /\ call.op = "ExtractFile" /\ trace.read)
    => /\ HoldsFile(call.path)
          => /\ result.err = ""
             /\ Len(result.files) = 1
             /\ ~result.files[1].isDir
       /\ ~HoldsName(call.path)
          => /\ result.err = "file not found"
             /\ result.files = <<>>
       /\ \A i \in 1..Len(result.files) :
             <<"/">> \o result.files[i].name = call.path

C4_Witness ==
    /\ pc = "done"
    /\ call.op = "ExtractFile"
    /\ call.path = <<"/", "a", "/", "b">>
    /\ archive = << Fentry(<<"c", "/", "d">>, 1),
                    Fentry(<<"a", "/", "c", "/", "d">>, 3),
                    Fentry(<<"a", "/", "b">>, 2) >>
    /\ result.files = <<Fentry(<<"a", "/", "b">>, 2)>>

\* name lies below the directory path P (every entry lies below the root)
Below(P, name) ==
    \/ P = <<"/">>
    \/ /\ Len(name) + 1 > Len(P)
       /\ SubSeq(<<"/">> \o name, 1, Len(P)) = P

\* C5: CascadeExtractDirs(P) returns, in archive order, every entry below P
\* at any depth and no entry that is not below P (for a/, a/b, a/c/, a/c/d and
\* P = /a/: a/b, a/c/, a/c/d); for P = "/" it returns every entry.
C5_CascadeSubtree ==
    (pc = "done" /\ call.op = "CascadeExtractDirs" /\ trace.read)
    => /\ result.err = ""
       /\ result.files = Entries(LAMBDA e : Below(call.path, e.name))

\* the file a Down call of SpecRange serves, and the range specs of its header
FileSize == archive[1].size

HasRangeUnit == HasPrefix(call.range, BytesEq)

RangeList == Split(SubSeq(call.range, Len(BytesEq) + 1, Len(call.range)), ",")

\* a Down call that reached the Range header: the entry was found and opened
Streamed == pc = "done" /\ call.op = "Down" /\ trace.fileOpened

IsEnvelope(code) ==
    /\ result.kind = "envelope"
    /\ result.code = code
    /\ result.body = <<>>

IsNumber(part) == part # <<>> /\ \A i \in 1..Len(part) : IsDigit(part[i])

\* a range spec of the form a-b, a- or -N: two parts around one "-", each a
\* decimal number or, one of them, empty
IsRangeForm(spec) ==
    /\ Len(Split(spec, "-")) = 2
    /\ Split(spec, "-")[1] = <<>> \/ IsNumber(Split(spec, "-")[1])
    /\ Split(spec, "-")[2] = <<>> \/ IsNumber(Split(spec, "-")[2])
    /\ Split(spec, "-") # <<<<>>, <<>>>>

\* a range spec a-b or a- that names bytes of the file
IsValidRange(spec) ==
    /\ IsRangeForm(spec)
    /\ Split(spec, "-")[1] # <<>>
    /\ DecimalValue(Split(spec, "-")[1], 0) < FileSize
    /\ \/ Split(spec, "-")[2] = <<>>
       \/ /\ DecimalValue(Split(spec, "-")[1], 0) <= DecimalValue(Split(spec, "-")[2], 0)
          /\ DecimalValue(Split(spec, "-")[2], 0) < FileSize

ParsedRange(spec) == rangeBounds(Split(spec, "-"), FileSize)

Satisfiable(b) == 0 <= b.Start /\ b.Start <= b.End /\ b.End < FileSize

\* C6: a Range header naming a single range whose parsed start and end
\* violate 0 <= start <= end < size is answered with the 416 error envelope
\* and no file bytes, never with another error or with content.
C6_UnsatisfiableRange416 ==
    (/\ Streamed
     /\ HasRangeUnit
     /\ Len(RangeList) = 1
     /\ IsRangeForm(RangeList[1])
     /\ ~Satisfiable(ParsedRange(RangeList[1])))
    => IsEnvelope(StatusRequestedRangeNotSatisfiable)

\* C7 as stated: a Range header listing more than one range is never
\* answered with file content, neither a 206 part nor a 200 full body, even
\* when each listed range is individually valid.
C7_MultiRangeRejected ==
    (/\ Streamed
     /\ HasRangeUnit
     /\ Len(RangeList) > 1
     /\ \A i \in 1..Len(RangeList) : IsValidRange(RangeList[i]))
    => result.kind # "stream"

\* the parser accepts a spec: start <= end, start < size, end < size
Accepted(spec) ==
    /\ Len(Split(spec, "-")) = 2
    /\ ParsedRange(spec).Start <= ParsedRange(spec).End
    /\ ParsedRange(spec).Start < FileSize
    /\ ParsedRange(spec).End < FileSize

IsFullBody ==
    /\ result.kind = "stream"
    /\ result.status = 200
    /\ result.contentLength = FileSize
    /\ result.body = FileData(archive[1])

\* C7 (amended): a Range header listing more than one range is never
\* answered with a 206 part: when the parser accepts every listed range the
\* header is ignored and the answer is 200 with the full body, and when it
\* rejects one the answer is the 416 error envelope.
C7_MultiRangeFullBody ==
    (Streamed /\ HasRangeUnit /\ Len(RangeList) > 1)
    => /\ result.status # StatusPartialContent
       /\ (\A i \in 1..Len(RangeList) : Accepted(RangeList[i])) => IsFullBody
       /\ (\E i \in 1..Len(RangeList) : ~Accepted(RangeList[i]))
             => IsEnvelope(StatusRequestedRangeNotSatisfiable)

C7_Witness ==
    /\ Streamed
    /\ call.range = BytesEq \o <<"0", "-", "0", ",", "1", "-", "1">>
    /\ FileSize = 3
    /\ result.kind = "stream"
    /\ result.status = 200
    /\ result.body = <<1, 2, 3>>

\* the parts of a single range spec, and whether a part is a decimal number
Part(i) == Split(RangeList[1], "-")[i]

Is206(start, end) ==
    /\ result.contentRange = [Start |-> start, End |-> end, total |-> FileSize]
    /\ result.contentLength = end - start + 1

\* C8: pagination returns total = the number of items and the items at
\* [start, min(start+perPage, total)) in order, page <= 0 counting as 1,
\* perPage <= 0 as 10 and start = (page-1)*perPage; a page beyond the end
\* yields an empty slice, and no pair of ints yields a crash.
C8_PaginationWindow ==
    (pc = "done" /\ call.op = "pagination")
    => LET page == IF call.page <= 0 THEN 1 ELSE call.page
           perPage == IF call.perPage <= 0 THEN DefaultPageSize ELSE call.perPage
           total == Len(call.objs)
           start == (page - 1) * perPage
       IN  /\ ~result.panic
           /\ result.total = total
           /\ result.items =
                 IF start >= total THEN <<>>
                 ELSE SubSeq(call.objs, start + 1, Min(start + perPage, total))

\* C9: the 206 answer to bytes=a-b carries the range (a, b), to bytes=a- the
\* range (a, S-1), and to bytes=-N with 1 <= N <= S the last N bytes
\* (S-N, S-1), with Content-Length N.
C9_RangeForms ==
    (/\ Streamed
     /\ HasRangeUnit
     /\ Len(RangeList) = 1
     /\ IsRangeForm(RangeList[1])
     /\ result.kind = "stream"
     /\ result.status = StatusPartialContent)
    => /\ (IsNumber(Part(1)) /\ IsNumber(Part(2)))
             => Is206(DecimalValue(Part(1), 0), DecimalValue(Part(2), 0))
       /\ (IsNumber(Part(1)) /\ Part(2) = <<>>)
             => Is206(DecimalValue(Part(1), 0), FileSize - 1)
       /\ (Part(1) = <<>> /\ IsNumber(Part(2))
              /\ 1 <= DecimalValue(Part(2), 0) /\ DecimalValue(Part(2), 0) <= FileSize)
             => Is206(FileSize - DecimalValue(Part(2), 0), FileSize - 1)

\* C10: for a valid single range start-end, however the stream splits its
\* bytes across reads, the body of the 206 answer is the bytes start..end of
\* the file and exactly start bytes were discarded before them.
C10_RangeBodyExact ==
    (/\ Streamed
     /\ HasRangeUnit
     /\ Len(RangeList) = 1
     /\ IsValidRange(RangeList[1])
     /\ result.kind = "stream"
     /\ result.status = StatusPartialContent)
    => /\ result.body = SubSeq(FileData(archive[1]),
                               result.contentRange.Start + 1,
                               result.contentRange.End + 1)
       /\ trace.discarded = result.contentRange.Start

====
